---- MODULE Spec2Model ----
(***************************************************************************)
(* deplock: PoetryLock (src/deplock/parser/poetry.py) over the lock types  *)
(* of src/deplock/configs/poetry_lock.py.  The state is one PoetryLock     *)
(* object; the actions are its four public methods, each taken whole.      *)
(*                                                                         *)
(* Python values are records tagged by "py": None, str, int and list are   *)
(* wrapped where the source's type is Optional or where truthiness is      *)
(* tested; file names and the lock version are sequences of tokens so that *)
(* str.endswith / str.startswith / the wheel-name parse act on text.       *)
(***************************************************************************)
EXTENDS Naturals, Sequences, FiniteSets

VARIABLES
    data,                      \* self.data: the PoetryLockConfig
    python_target_env_spec,    \* self.python_target_env_spec
    poetry_lock_is_validated,  \* self.poetry_lock_is_validated
    valid_package_list,        \* self.valid_package_list
    package_requirements,      \* self.package_requirements
    call,                      \* the method called last
    raised,                    \* the exception that call raised (NoException: it returned)
    returned,                  \* the value that call returned (None: nothing, or it raised)
    seen,                      \* the packages the last get_preferred_distributions loop visited
    pc,                        \* the caller's place in a run of the three stages (SpecTwice)
    first                      \* how the caller's first run ended (SpecTwice)

vars == <<data, python_target_env_spec, poetry_lock_is_validated, valid_package_list,
          package_requirements, call, raised, returned, seen, pc, first>>

(***************************************************************************)
(* Bounds.                                                                 *)
(***************************************************************************)
MaxPackages == 3       \* packages in a lock (Spec)
MaxFiles == 3          \* files of the package (SpecDist)

(***************************************************************************)
(* Python values.                                                          *)
(***************************************************************************)
None == [py |-> "None"]
Str(s) == [py |-> "str", v |-> s]
Int(i) == [py |-> "int", v |-> i]
List(l) == [py |-> "list", v |-> l]

\* bool(x): None, "" and [] are false; model objects are true.
Truthy(x) ==
    CASE x.py = "None" -> FALSE
      [] x.py = "str" -> x.v # ""
      [] x.py = "list" -> x.v # <<>>
      [] OTHER -> TRUE

\* str.endswith / str.startswith on token sequences.
EndsWith(s, suffix) ==
    /\ Len(s) >= Len(suffix)
    /\ SubSeq(s, Len(s) - Len(suffix) + 1, Len(s)) = suffix

StartsWith(s, prefix) ==
    /\ Len(s) >= Len(prefix)
    /\ SubSeq(s, 1, Len(prefix)) = prefix

\* str.split(sep): the fields between the occurrences of the token sep.
RECURSIVE SplitFrom(_, _, _, _)
SplitFrom(s, sep, i, field) ==
    IF i > Len(s) THEN <<field>>
    ELSE IF s[i] = sep THEN <<field>> \o SplitFrom(s, sep, i + 1, <<>>)
    ELSE SplitFrom(s, sep, i + 1, Append(field, s[i]))

Split(s, sep) == SplitFrom(s, sep, 1, <<>>)

(***************************************************************************)
(* Exceptions (deplock.exceptions), with the message the raise gives.      *)
(***************************************************************************)
NoException == [exc |-> "", msg |-> <<>>]

MissingPythonEnvironmentError ==
    [exc |-> "MissingPythonEnvironmentError", msg |-> <<"No Python environment specified">>]

InvalidLockVersionError == [exc |-> "InvalidLockVersionError", msg |-> <<>>]

InvalidLockFileError ==
    [exc |-> "InvalidLockFileError",
     msg |-> <<"Poetry lock file not compatible with target Python version">>]

MissingLockMetadataError ==
    [exc |-> "MissingLockMetadataError",
     msg |-> <<"Packages have not been validated against the current Python environment.">>]

IncompatibleDistributionError(package) ==
    [exc |-> "IncompatibleDistributionError",
     msg |-> <<"Could not find a distribution for ", package.name, "==", package.version,
               " that is compatible with target environment.">>]

(***************************************************************************)
(* The lock types.                                                         *)
(***************************************************************************)
PoetryFile(file, hash) == [py |-> "PoetryFile", file |-> file, hash |-> hash]

PoetrySource(url) == [py |-> "PoetrySource", url |-> url]

PoetryPackage(name, version, python_versions, files, source) ==
    [py |-> "PoetryPackage", name |-> name, version |-> version,
     python_versions |-> python_versions, files |-> files, source |-> source]

PoetryLockMetadata(lock_version, python_versions) ==
    [lock_version |-> lock_version, python_versions |-> python_versions]

PoetryLockConfig(metadata, packages) == [metadata |-> metadata, packages |-> packages]

PythonRequirement(name, version, fingerprint, index_url) ==
    [py |-> "PythonRequirement", name |-> name, version |-> version,
     fingerprint |-> fingerprint, index_url |-> index_url]

(***************************************************************************)
(* The target environment (deplock.types.environment.PythonEnvironment):   *)
(* an interpreter version and the ordered table of supported tags.         *)
(***************************************************************************)
Tag(interpreter, abi, platform) == <<interpreter, abi, platform>>

PythonEnvironment(python_version, tags) ==
    [py |-> "PythonEnvironment", python_version |-> python_version, tags |-> tags]

supported_tags(env) == env.tags

\* deplock.utils.markers.validate_python_version: does the specifier admit the
\* version?  A yes/no predicate, given here by the versions each specifier admits.
Versions == {"3.8", "3.11", "3.12"}

validate_python_version(specifier, current_version) ==
    CASE specifier = ">=3.11" -> current_version \in {"3.11", "3.12"}
      [] specifier = "<3.12" -> current_version \in {"3.8", "3.11"}
      [] specifier = "" -> TRUE      \* the empty specifier set admits every version
      [] OTHER -> FALSE

(***************************************************************************)
(* poetry.utils.wheel.Wheel: the tags a wheel's file name encodes, and the *)
(* smallest position of one of them in the supported-tag table.            *)
(***************************************************************************)
Range(s) == {s[i] : i \in 1..Len(s)}

\* Wheel(filename).tags: name-ver-pyver-abi-plat.whl, each of the last three a
\* "."-separated set; the tags are their product.
WheelTags(filename) ==
    LET fields == Split(SubSeq(filename, 1, Len(filename) - 1), "-")
        n == Len(fields)
        pyversions == Split(fields[n - 2], ".")
        abis == Split(fields[n - 1], ".")
        plats == Split(fields[n], ".")
    IN  {Tag(x[1], y[1], z[1]) : x \in Range(pyversions), y \in Range(abis), z \in Range(plats)}

\* Wheel.get_minimum_supported_index(tags): min of tags.index(t) over the wheel's
\* tags t that are in the table, None when there is none.
get_minimum_supported_index(filename, tags) ==
    LET indexes == {i \in 1..Len(tags) : tags[i] \in WheelTags(filename)}
    IN  IF indexes = {} THEN None
        ELSE Int(CHOOSE i \in indexes : \A j \in indexes : i <= j)

(***************************************************************************)
(* get_preferred_distributions, one package: lines 249-283.                *)
(***************************************************************************)
binary_distributions(distributions) ==
    SelectSeq(distributions, LAMBDA dist : EndsWith(dist.file, <<".whl">>))

is_platform_specific(distributions) ==
    \E dist \in Range(binary_distributions(distributions)) :
        ~EndsWith(dist.file, <<"none", "-", "any", ".whl">>)

\* Lines 271-273: this wheel matches, and better than the best so far.
ImprovesOrTies(matched_index, min_tag_index) ==
    /\ matched_index # None
    /\ (min_tag_index = None \/ matched_index.v <= min_tag_index.v)

Improves(matched_index, min_tag_index) ==
    /\ matched_index # None
    /\ (min_tag_index = None \/ matched_index.v < min_tag_index.v)

\* Lines 278-282: a source archive is taken while nothing is chosen yet.
SdistTakenAnyway(distributions, filename, best_dist) ==
    /\ EndsWith(filename, <<".tar.gz">>)
    /\ ~Truthy(best_dist)

SdistTaken(distributions, filename, best_dist) ==
    /\ ~is_platform_specific(distributions)
    /\ EndsWith(filename, <<".tar.gz">>)
    /\ ~Truthy(best_dist)

\* The loop over the package's files (lines 266-283), from file i on, with the
\* loop's two variables; its value is best_dist after the last file.
RECURSIVE DistLoop(_, _, _, _, _)
DistLoop(distributions, tags, i, best_dist, min_tag_index) ==
    IF i > Len(distributions) THEN best_dist
    ELSE LET dist == distributions[i]
             filename == dist.file
         IN  IF EndsWith(filename, <<".whl">>)
             THEN LET matched_index == get_minimum_supported_index(filename, tags)
                  IN  IF Improves(matched_index, min_tag_index)
                      THEN DistLoop(distributions, tags, i + 1, dist, matched_index)
                      ELSE DistLoop(distributions, tags, i + 1, best_dist, min_tag_index)
             ELSE IF SdistTaken(distributions, filename, best_dist)
             THEN DistLoop(distributions, tags, i + 1, dist, min_tag_index)
             ELSE DistLoop(distributions, tags, i + 1, best_dist, min_tag_index)

BestDist(package, tags) == DistLoop(package.files, tags, 1, None, None)

SourceUrlDropped(package) == None

\* Lines 297-300.
SourceUrl(package) ==
    IF Truthy(package.source) /\ Truthy(package.source.url)
    THEN package.source.url
    ELSE None

(***************************************************************************)
(* get_preferred_distributions, the loop over valid_package_list (lines    *)
(* 248-309) from package i on: the list built so far, the packages visited *)
(* and the exception that ended the loop, if one did.                      *)
(***************************************************************************)
\* A loop that visits every package and raises for the first failure afterwards.
PackageLoopCollecting(packages, tags, i, requirements) ==
    LET rest == SubSeq(packages, i, Len(packages))
        good == SelectSeq(rest, LAMBDA package : Truthy(BestDist(package, tags)))
        bad == SelectSeq(rest, LAMBDA package : ~Truthy(BestDist(package, tags)))
    IN  [raised |-> IF bad = <<>> THEN NoException ELSE IncompatibleDistributionError(bad[1]),
         package_requirements |->
             requirements \o
                 [k \in 1..Len(good) |->
                     PythonRequirement(good[k].name, good[k].version,
                                       BestDist(good[k], tags).hash, SourceUrl(good[k]))],
         seen |-> packages]

RECURSIVE PackageLoop(_, _, _, _)
PackageLoop(packages, tags, i, requirements) ==
    IF i > Len(packages)
    THEN [raised |-> NoException, package_requirements |-> requirements, seen |-> packages]
    ELSE LET package == packages[i]
             best_dist == BestDist(package, tags)
         IN  IF ~Truthy(best_dist)
             THEN [raised |-> IncompatibleDistributionError(package),
                   package_requirements |-> requirements,
                   seen |-> SubSeq(packages, 1, i)]
             ELSE PackageLoop(packages, tags, i + 1,
                      Append(requirements,
                             PythonRequirement(package.name, package.version,
                                               best_dist.hash, SourceUrl(package))))

(***************************************************************************)
(* The inputs: environments, file names, packages and locks.               *)
(***************************************************************************)
Env38 ==
    PythonEnvironment("3.8",
        <<Tag("cp38", "cp38", "linux"), Tag("py38", "none", "any")>>)

Env311 ==
    PythonEnvironment("3.11",
        <<Tag("cp311", "cp311", "linux"), Tag("cp311", "abi3", "linux"),
          Tag("py3", "none", "any")>>)

Env312 ==
    PythonEnvironment("3.12",
        <<Tag("cp312", "cp312", "linux"), Tag("cp312", "abi3", "linux"),
          Tag("py3", "none", "any")>>)

Environments == {Env38, Env311, Env312}

\* name-version-pyver-abi-plat.whl; pyver, abi and plat are token sequences
\* ("." between the members of a compressed tag set).
WheelName(name, version, pyver, abi, plat) ==
    <<name, "-", version, "-">> \o pyver \o <<"-">> \o abi \o <<"-">> \o plat \o <<".whl">>

\* The files a package of SpecDist draws its file list from.
FilePool ==
    { PoetryFile(WheelName("a", "1.0", <<"cp311">>, <<"cp311">>, <<"linux">>), "sha256:01"),
      PoetryFile(WheelName("a", "1.0", <<"cp312">>, <<"cp312">>, <<"linux">>), "sha256:02"),
      PoetryFile(WheelName("a", "1.0", <<"cp311", ".", "cp312">>, <<"abi3">>, <<"linux">>),
                 "sha256:03"),
      PoetryFile(WheelName("a", "1.0", <<"py3">>, <<"none">>, <<"any">>), "sha256:04"),
      PoetryFile(WheelName("a", "1.0", <<"py2", ".", "py3">>, <<"none">>, <<"any">>),
                 "sha256:05"),
      PoetryFile(<<"a", "-", "1.0", ".tar.gz">>, "sha256:06"),
      PoetryFile(<<"a", "-", "1.0", ".post0", ".tar.gz">>, "sha256:07"),
      PoetryFile(<<"a", "-", "1.0", ".zip">>, "sha256:08") }

\* The packages a lock of Spec draws its package list from.
Requests ==
    PoetryPackage("requests", "2.31.0", None,
        <<PoetryFile(WheelName("requests", "2.31.0", <<"py3">>, <<"none">>, <<"any">>),
                     "sha256:r1"),
          PoetryFile(<<"requests", "-", "2.31.0", ".tar.gz">>, "sha256:r2")>>,
        None)

Numpy ==
    PoetryPackage("numpy", "1.26.0", Str(">=3.11"),
        <<PoetryFile(WheelName("numpy", "1.26.0", <<"cp312">>, <<"cp312">>, <<"linux">>),
                     "sha256:n1"),
          PoetryFile(WheelName("numpy", "1.26.0", <<"cp311">>, <<"cp311">>, <<"linux">>),
                     "sha256:n2"),
          PoetryFile(<<"numpy", "-", "1.26.0", ".tar.gz">>, "sha256:n3")>>,
        PoetrySource(Str("https://mirror.example/simple")))

LegacyPkg ==
    PoetryPackage("legacy-pkg", "0.1.0", Str("<3.12"),
        <<PoetryFile(WheelName("legacy_pkg", "0.1.0", <<"cp38">>, <<"cp38">>, <<"linux">>),
                     "sha256:l1"),
          PoetryFile(<<"legacy_pkg", "-", "0.1.0", ".tar.gz">>, "sha256:l2")>>,
        PoetrySource(Str("")))

SdistOnly ==
    PoetryPackage("sdist-only", "0.5", Str(""),
        <<PoetryFile(<<"sdist_only", "-", "0.5", ".tar.gz">>, "sha256:s1")>>,
        PoetrySource(None))

ZipOnly ==
    PoetryPackage("zip-only", "1.0", None,
        <<PoetryFile(<<"zip_only", "-", "1.0", ".zip">>, "sha256:z1")>>,
        None)

Catalogue == {Requests, Numpy, LegacyPkg, SdistOnly, ZipOnly}

\* metadata.lock_version, character by character: "2.0", "2.1", "1.1", "20.0".
LockVersions ==
    { <<"2", ".", "0">>, <<"2", ".", "1">>, <<"1", ".", "1">>, <<"2", "0", ".", "0">> }

\* metadata.python_versions.
LockConstraints == {None, Str(""), Str(">=3.11")}

\* The lists of at most n distinct members of S.
InjSeqs(S, n) ==
    UNION { {s \in [1..k -> S] : \A i, j \in 1..k : i # j => s[i] # s[j]} : k \in 0..n }

Locks ==
    { PoetryLockConfig(PoetryLockMetadata(v, c), ps) :
        v \in LockVersions, c \in LockConstraints, ps \in InjSeqs(Catalogue, MaxPackages) }

DistLocks ==
    { PoetryLockConfig(PoetryLockMetadata(<<"2", ".", "0">>, Str("")),
                       <<PoetryPackage("a", "1.0", None, fs, None)>>) :
        fs \in InjSeqs(FilePool, MaxFiles) }

(***************************************************************************)
(* PoetryLock.__init__ (lines 54-59), with the lock as loaded.             *)
(***************************************************************************)
Constructed(locks) ==
    /\ data \in locks
    /\ python_target_env_spec = None
    /\ poetry_lock_is_validated = FALSE
    /\ valid_package_list = None
    /\ package_requirements = None
    /\ call = "__init__"
    /\ raised = NoException
    /\ returned = None
    /\ seen = <<>>
    /\ pc = [run |-> 0, stage |-> "supply"]
    /\ first = None

Init == Constructed(Locks)

InitDist == Constructed(DistLocks)

(***************************************************************************)
(* The methods.                                                            *)
(***************************************************************************)
add_target_environment_specification(python_environment) ==
    /\ python_target_env_spec' = python_environment
    /\ call' = "add_target_environment_specification"
    /\ raised' = NoException
    /\ returned' = None
    /\ seen' = <<>>
    /\ UNCHANGED <<data, poetry_lock_is_validated, valid_package_list, package_requirements>>

\* Lines 176-182 and 204-210: an absent or empty specifier admits every version.
ValidPyVersion(python_versions, env) ==
    IF Truthy(python_versions)
    THEN validate_python_version(python_versions.v, env.python_version)
    ELSE TRUE

LockVersionSupportedLoose(lock_version) == StartsWith(lock_version, <<"2">>)

\* Line 172.
LockVersionSupported(lock_version) == StartsWith(lock_version, <<"2", ".">>)

\* The lock version looked at before the environment.
ValidateRaisesVersionFirst ==
    IF ~LockVersionSupported(data.metadata.lock_version) THEN InvalidLockVersionError
    ELSE IF python_target_env_spec = None THEN MissingPythonEnvironmentError
    ELSE IF ~ValidPyVersion(data.metadata.python_versions, python_target_env_spec)
    THEN InvalidLockFileError
    ELSE NoException

\* The lock's interpreter constraint not looked at.
ValidateRaisesSkipsPython ==
    IF python_target_env_spec = None THEN MissingPythonEnvironmentError
    ELSE IF ~LockVersionSupported(data.metadata.lock_version) THEN InvalidLockVersionError
    ELSE NoException

\* The exception validate_poetry_lock ends with (lines 168-185).
ValidateRaises ==
    IF python_target_env_spec = None THEN MissingPythonEnvironmentError
    ELSE IF ~LockVersionSupported(data.metadata.lock_version) THEN InvalidLockVersionError
    ELSE IF ~ValidPyVersion(data.metadata.python_versions, python_target_env_spec)
    THEN InvalidLockFileError
    ELSE NoException

validate_poetry_lock ==
    /\ call' = "validate_poetry_lock"
    /\ raised' = ValidateRaises
    /\ returned' = None
    /\ seen' = <<>>
    /\ poetry_lock_is_validated' =
           IF ValidateRaises = NoException THEN TRUE ELSE poetry_lock_is_validated
    /\ UNCHANGED <<data, python_target_env_spec, valid_package_list, package_requirements>>

\* A filter loop that stops at the first rejected package (break for continue).
ValidPackagesUntilRejected(packages, env) ==
    LET rejected == {i \in 1..Len(packages) : ~ValidPyVersion(packages[i].python_versions, env)}
    IN  IF rejected = {} THEN packages
        ELSE SubSeq(packages, 1, (CHOOSE i \in rejected : \A j \in rejected : i <= j) - 1)

\* Lines 201-221: the packages the loop appends.
ValidPackages(packages, env) ==
    SelectSeq(packages, LAMBDA package : ValidPyVersion(package.python_versions, env))

\* A filter that prunes the lock's own package list.
get_valid_packages_from_lock_in_place ==
    /\ call' = "get_valid_packages_from_lock"
    /\ seen' = <<>>
    /\ IF python_target_env_spec = None
       THEN /\ raised' = MissingPythonEnvironmentError
            /\ returned' = None
            /\ UNCHANGED <<data, valid_package_list>>
       ELSE /\ raised' = NoException
            /\ data' = [data EXCEPT
                            !.packages = ValidPackages(data.packages, python_target_env_spec)]
            /\ valid_package_list' = List(data'.packages)
            /\ returned' = valid_package_list'
    /\ UNCHANGED <<python_target_env_spec, poetry_lock_is_validated, package_requirements>>

get_valid_packages_from_lock ==
    /\ call' = "get_valid_packages_from_lock"
    /\ seen' = <<>>
    /\ IF python_target_env_spec = None
       THEN /\ raised' = MissingPythonEnvironmentError
            /\ returned' = None
            /\ UNCHANGED valid_package_list
       ELSE /\ raised' = NoException
            /\ valid_package_list' = List(ValidPackages(data.packages, python_target_env_spec))
            /\ returned' = valid_package_list'
    /\ UNCHANGED <<data, python_target_env_spec, poetry_lock_is_validated,
                   package_requirements>>

\* Line 238.
NotYetFiltered(list) == ~Truthy(list)

\* A selection that appends to the list an earlier call left (line 245 missing).
get_preferred_distributions_accumulating ==
    /\ call' = "get_preferred_distributions"
    /\ IF NotYetFiltered(valid_package_list)
       THEN /\ raised' = MissingLockMetadataError
            /\ returned' = None
            /\ seen' = <<>>
            /\ UNCHANGED package_requirements
       ELSE LET loop == PackageLoop(valid_package_list.v,
                                    supported_tags(python_target_env_spec), 1,
                                    IF package_requirements = None
                                    THEN <<>>
                                    ELSE package_requirements.v)
            IN  /\ raised' = loop.raised
                /\ seen' = loop.seen
                /\ package_requirements' = List(loop.package_requirements)
                /\ returned' = IF loop.raised = NoException
                               THEN package_requirements'
                               ELSE None
    /\ UNCHANGED <<data, python_target_env_spec, poetry_lock_is_validated,
                   valid_package_list>>

get_preferred_distributions ==
    /\ call' = "get_preferred_distributions"
    /\ IF NotYetFiltered(valid_package_list)
       THEN /\ raised' = MissingLockMetadataError
            /\ returned' = None
            /\ seen' = <<>>
            /\ UNCHANGED package_requirements
       ELSE LET loop == PackageLoop(valid_package_list.v,
                                    supported_tags(python_target_env_spec), 1, <<>>)
            IN  /\ raised' = loop.raised
                /\ seen' = loop.seen
                /\ package_requirements' = List(loop.package_requirements)
                /\ returned' = IF loop.raised = NoException
                               THEN package_requirements'
                               ELSE None
    /\ UNCHANGED <<data, python_target_env_spec, poetry_lock_is_validated,
                   valid_package_list>>

(***************************************************************************)
(* The caller.  Any method may be called at any time.                      *)
(***************************************************************************)
CallAdd ==
    /\ \E python_environment \in Environments :
           add_target_environment_specification(python_environment)
    /\ UNCHANGED <<pc, first>>

CallValidate == validate_poetry_lock /\ UNCHANGED <<pc, first>>

CallFilter == get_valid_packages_from_lock /\ UNCHANGED <<pc, first>>

CallSelect == get_preferred_distributions /\ UNCHANGED <<pc, first>>

Next ==
    \/ CallAdd
    \/ CallValidate
    \/ CallFilter
    \/ CallSelect

Spec == Init /\ [][Next]_vars

SpecDist == InitDist /\ [][Next]_vars

(***************************************************************************)
(* A caller that supplies an environment (perhaps replacing it) and then   *)
(* runs validate_poetry_lock, get_valid_packages_from_lock and             *)
(* get_preferred_distributions twice in that order on the same object.  An *)
(* exception ends the run it is raised in; a run's outcome is what its     *)
(* last call raised or returned.                                           *)
(***************************************************************************)
Outcome(exception, value) == [raised |-> exception, returned |-> value]

\* The run ends with the call just made: remember the first run's outcome and
\* start the second, or stop after the second.
EndRun ==
    IF pc.run = 1
    THEN /\ pc' = [run |-> 2, stage |-> "validate"]
         /\ first' = Outcome(raised', returned')
    ELSE /\ pc' = [run |-> 3, stage |-> "done"]
         /\ UNCHANGED first

Continue(stage) ==
    IF raised' = NoException
    THEN pc' = [pc EXCEPT !.stage = stage] /\ UNCHANGED first
    ELSE EndRun

Supply ==
    /\ pc.run = 0
    /\ \E python_environment \in Environments :
           add_target_environment_specification(python_environment)
    /\ pc' \in {pc, [run |-> 1, stage |-> "validate"]}
    /\ UNCHANGED first

RunValidate ==
    /\ pc.stage = "validate"
    /\ validate_poetry_lock
    /\ Continue("filter")

RunFilter ==
    /\ pc.stage = "filter"
    /\ get_valid_packages_from_lock
    /\ Continue("select")

RunSelect ==
    /\ pc.stage = "select"
    /\ get_preferred_distributions
    /\ EndRun

NextTwice ==
    \/ Supply
    \/ RunValidate
    \/ RunFilter
    \/ RunSelect

SpecTwice == Init /\ [][NextTwice]_vars

(***************************************************************************)
(* What the claims speak of, stated on the file list rather than by the    *)
(* loop: positions in a package's file list.                               *)
(***************************************************************************)
TagIndex(package, tags, i) == get_minimum_supported_index(package.files[i].file, tags)

Wheels(package) ==
    {i \in 1..Len(package.files) : EndsWith(package.files[i].file, <<".whl">>)}

MatchingWheels(package, tags) ==
    {i \in Wheels(package) : TagIndex(package, tags, i) # None}

PlatformSpecificWheels(package) ==
    {i \in Wheels(package) :
        ~EndsWith(package.files[i].file, <<"none", "-", "any", ".whl">>)}

SourceArchives(package) ==
    {i \in 1..Len(package.files) : EndsWith(package.files[i].file, <<".tar.gz">>)}

Least(S) == CHOOSE i \in S : \A j \in S : i <= j

\* The matching wheel of smallest tag index, the first in the list among equals.
BestWheel(package, tags) ==
    CHOOSE i \in MatchingWheels(package, tags) :
        \A j \in MatchingWheels(package, tags) :
            \/ TagIndex(package, tags, i).v < TagIndex(package, tags, j).v
            \/ TagIndex(package, tags, i).v = TagIndex(package, tags, j).v /\ i <= j

FallsBack(package) ==
    SourceArchives(package) # {} /\ PlatformSpecificWheels(package) = {}

\* The file the claims say is chosen, None when the package is to fail.
Chosen(package, tags) ==
    IF MatchingWheels(package, tags) # {}
    THEN package.files[BestWheel(package, tags)]
    ELSE IF FallsBack(package)
    THEN package.files[Least(SourceArchives(package))]
    ELSE None

Selecting == call = "get_preferred_distributions" /\ raised # MissingLockMetadataError

CurrentTags == supported_tags(python_target_env_spec)

\* The entry of package_requirements for the i-th visited package, None if none.
Entry(i) ==
    IF i <= Len(package_requirements.v) THEN package_requirements.v[i] ELSE None

DistinctIndices(package, tags) ==
    \A i, j \in MatchingWheels(package, tags) :
        i # j => TagIndex(package, tags, i) # TagIndex(package, tags, j)

Permutations(n) ==
    {f \in [1..n -> 1..n] : \A i, j \in 1..n : i # j => f[i] # f[j]}

Permuted(package, f) ==
    [package EXCEPT !.files = [i \in 1..Len(package.files) |-> package.files[f[i]]]]

(***************************************************************************)
(* C1.  Every package get_preferred_distributions processes that has a     *)
(* wheel matching the tag table gets the matching wheel of smallest tag    *)
(* index, the first in the file list among those of equal index; never a   *)
(* .tar.gz, wherever it stands; and when the matching wheels have distinct *)
(* indices every permutation of the file list gives the same choice.       *)
(***************************************************************************)
C1_MinimumTagIndexWheel ==
    Selecting =>
        \A i \in 1..Len(seen) :
            LET package == seen[i]
            IN  MatchingWheels(package, CurrentTags) # {} =>
                    /\ Entry(i) # None
                    /\ Entry(i).fingerprint =
                           package.files[BestWheel(package, CurrentTags)].hash
                    /\ BestDist(package, CurrentTags) =
                           package.files[BestWheel(package, CurrentTags)]
                    /\ ~EndsWith(BestDist(package, CurrentTags).file, <<".tar.gz">>)
                    /\ DistinctIndices(package, CurrentTags) =>
                           \A f \in Permutations(Len(package.files)) :
                               BestDist(Permuted(package, f), CurrentTags) =
                                   BestDist(package, CurrentTags)

\* A source archive first, then two matching wheels, the better one last.
C1_Witness ==
    /\ Selecting
    /\ raised = NoException
    /\ Len(seen) = 1
    /\ LET package == seen[1]
       IN  /\ Len(package.files) = 3
           /\ 1 \in SourceArchives(package)
           /\ MatchingWheels(package, CurrentTags) = {2, 3}
           /\ TagIndex(package, CurrentTags, 3).v < TagIndex(package, CurrentTags, 2).v
           /\ Entry(1).fingerprint = package.files[3].hash

(***************************************************************************)
(* C2.  A processed package none of whose wheels matches gets its first    *)
(* .tar.gz exactly when it has a .tar.gz and no wheel other than           *)
(* none-any ones; otherwise the call fails with                            *)
(* IncompatibleDistributionError for it.                                   *)
(***************************************************************************)
C2_FallbackLaw ==
    Selecting =>
        \A i \in 1..Len(seen) :
            LET package == seen[i]
            IN  MatchingWheels(package, CurrentTags) = {} =>
                    IF FallsBack(package)
                    THEN /\ Entry(i) # None
                         /\ Entry(i).fingerprint =
                                package.files[Least(SourceArchives(package))].hash
                    ELSE /\ Entry(i) = None
                         /\ i = Len(seen)
                         /\ raised = IncompatibleDistributionError(package)

\* A platform-specific wheel that does not match, beside a source archive.
C2_Witness ==
    /\ Selecting
    /\ Len(seen) = 1
    /\ MatchingWheels(seen[1], CurrentTags) = {}
    /\ PlatformSpecificWheels(seen[1]) # {}
    /\ SourceArchives(seen[1]) # {}
    /\ raised = IncompatibleDistributionError(seen[1])

(***************************************************************************)
(* The vocabulary of the claims about the lock, the filter and the stages. *)
(***************************************************************************)
EnvSupplied == python_target_env_spec # None

\* A constraint that is absent, or that admits the environment's interpreter.
Admits(python_versions, env) ==
    \/ python_versions = None
    \/ validate_python_version(python_versions.v, env.python_version)

\* The major component of the schema version: the text before the first ".".
MajorComponent(lock_version) == Split(lock_version, ".")[1]

SupportedSchema == MajorComponent(data.metadata.lock_version) = <<"2">>

Position(package) == CHOOSE i \in 1..Len(data.packages) : data.packages[i] = package

(***************************************************************************)
(* C3.  With an environment supplied get_valid_packages_from_lock returns  *)
(* exactly the lock's packages whose constraint is absent or admits the    *)
(* environment's interpreter, in the lock's order, each once; it does not  *)
(* fail, also when nothing is left.                                        *)
(***************************************************************************)
C3_FilterExact ==
    (call = "get_valid_packages_from_lock" /\ EnvSupplied) =>
        /\ raised = NoException
        /\ returned = valid_package_list
        /\ returned # None
        /\ \A i \in 1..Len(data.packages) :
               (\E k \in 1..Len(returned.v) : returned.v[k] = data.packages[i])
                   <=> Admits(data.packages[i].python_versions, python_target_env_spec)
        /\ \A k \in 1..Len(returned.v) : returned.v[k] \in Range(data.packages)
        /\ \A k, l \in 1..Len(returned.v) :
               k < l => Position(returned.v[k]) < Position(returned.v[l])

\* One package kept for want of a constraint, a later one kept by its
\* constraint, another rejected.
C3_Witness ==
    /\ call = "get_valid_packages_from_lock"
    /\ raised = NoException
    /\ Len(returned.v) = 2
    /\ Len(data.packages) = 3
    /\ returned.v[1].python_versions = None
    /\ returned.v[2].python_versions # None
    /\ Position(returned.v[2]) = 3

(***************************************************************************)
(* C4.  A lock whose schema version's major component is not 2 is never    *)
(* validated: validate_poetry_lock with an environment supplied raises     *)
(* InvalidLockVersionError, and poetry_lock_is_validated stays false.      *)
(***************************************************************************)
C4_UnsupportedSchemaVersion ==
    ~SupportedSchema =>
        /\ ~poetry_lock_is_validated
        /\ (call = "validate_poetry_lock" /\ EnvSupplied) => raised = InvalidLockVersionError

\* Schema "20.0", with an interpreter constraint the environment satisfies.
C4_Witness ==
    /\ call = "validate_poetry_lock"
    /\ EnvSupplied
    /\ raised = InvalidLockVersionError
    /\ data.metadata.lock_version = <<"2", "0", ".", "0">>
    /\ data.metadata.python_versions = Str(">=3.11")
    /\ python_target_env_spec.python_version = "3.11"
    /\ data.packages # <<>>

(***************************************************************************)
(* C5.  For a lock of a supported schema version and with an environment   *)
(* supplied, validate_poetry_lock returns, with the flag set, exactly when *)
(* the lock's constraint is absent, empty or admits the environment's      *)
(* interpreter; otherwise it raises InvalidLockFileError and leaves the    *)
(* flag as it was.                                                         *)
(***************************************************************************)
LockAdmits ==
    \/ data.metadata.python_versions = Str("")
    \/ Admits(data.metadata.python_versions, python_target_env_spec)

C5_ValidateOutcome ==
    /\ []((SupportedSchema /\ call = "validate_poetry_lock" /\ EnvSupplied) =>
              IF LockAdmits
              THEN raised = NoException /\ poetry_lock_is_validated
              ELSE raised = InvalidLockFileError)
    /\ [][(call' = "validate_poetry_lock" /\ raised' = InvalidLockFileError) =>
              poetry_lock_is_validated' = poetry_lock_is_validated]_vars

C5_Witness ==
    /\ SupportedSchema
    /\ call = "validate_poetry_lock"
    /\ EnvSupplied
    /\ ~LockAdmits
    /\ raised = InvalidLockFileError
    /\ ~poetry_lock_is_validated

(***************************************************************************)
(* C6.  get_valid_packages_from_lock and get_preferred_distributions       *)
(* return a result only after validate_poetry_lock has succeeded on the    *)
(* object (the flag is set by that success alone and never cleared).       *)
(***************************************************************************)
C6_StagePrecondition ==
    (/\ call \in {"get_valid_packages_from_lock", "get_preferred_distributions"}
     /\ raised = NoException)
        => poetry_lock_is_validated

(***************************************************************************)
(* C7.  Every package get_preferred_distributions processes has a          *)
(* constraint that is absent or admits the interpreter of the current      *)
(* target environment.                                                     *)
(***************************************************************************)
C7_SelectorSeesOnlyAdmitted ==
    call = "get_preferred_distributions" =>
        \A i \in 1..Len(seen) : Admits(seen[i].python_versions, python_target_env_spec)

(***************************************************************************)
(* C8.  Without an environment, validate_poetry_lock and                   *)
(* get_valid_packages_from_lock raise MissingPythonEnvironmentError for    *)
(* every lock and change none of poetry_lock_is_validated,                 *)
(* valid_package_list and package_requirements.                            *)
(***************************************************************************)
C8_MissingEnvironment ==
    [][(/\ python_target_env_spec = None
        /\ call' \in {"validate_poetry_lock", "get_valid_packages_from_lock"})
           => /\ raised' = MissingPythonEnvironmentError
              /\ UNCHANGED <<poetry_lock_is_validated, valid_package_list,
                             package_requirements>>]_vars

\* validate_poetry_lock without an environment on a lock of schema "1.1".
C8_Witness ==
    /\ python_target_env_spec = None
    /\ call = "validate_poetry_lock"
    /\ raised = MissingPythonEnvironmentError
    /\ data.metadata.lock_version = <<"1", ".", "1">>
    /\ ~poetry_lock_is_validated
    /\ valid_package_list = None
    /\ package_requirements = None

(***************************************************************************)
(* C9.  As claimed: when a package of the filtered list has neither a      *)
(* matching wheel nor an eligible source archive the call raises           *)
(* IncompatibleDistributionError naming such a package, and every package  *)
(* of the list has been evaluated by then.                                 *)
(***************************************************************************)
Failing ==
    {i \in 1..Len(valid_package_list.v) : Chosen(valid_package_list.v[i], CurrentTags) = None}

Names(exception, package) ==
    /\ exception.exc = "IncompatibleDistributionError"
    /\ \E k \in 1..Len(exception.msg) - 2 :
           /\ exception.msg[k] = package.name
           /\ exception.msg[k + 1] = "=="
           /\ exception.msg[k + 2] = package.version

C9_FailureDoesNotAbort ==
    (Selecting /\ Failing # {}) =>
        /\ \E i \in Failing : Names(raised, valid_package_list.v[i])
        /\ seen = valid_package_list.v

(***************************************************************************)
(* C9, amended.  The call raises IncompatibleDistributionError naming the  *)
(* name and version of the first such package of the list, and stops       *)
(* there: the packages after it are not evaluated.  With no such package   *)
(* the call does not raise.                                                *)
(***************************************************************************)
C9_FirstFailureAborts ==
    Selecting =>
        IF Failing = {}
        THEN raised = NoException /\ seen = valid_package_list.v
        ELSE /\ Names(raised, valid_package_list.v[Least(Failing)])
             /\ seen = SubSeq(valid_package_list.v, 1, Least(Failing))

\* The second of three packages fails; the third is not visited.
C9_Witness ==
    /\ Selecting
    /\ Len(valid_package_list.v) = 3
    /\ Failing = {2}
    /\ Len(seen) = 2
    /\ Names(raised, seen[2])

(***************************************************************************)
(* C10.  A successful get_preferred_distributions returns one entry per    *)
(* package of valid_package_list, in its order: the package's name and     *)
(* version, the hash of the file chosen for it, and the package's source   *)
(* URL if it has a source with a (non-empty) URL, else None.               *)
(***************************************************************************)
HasSourceUrl(package) ==
    /\ package.source # None
    /\ package.source.url # None
    /\ package.source.url # Str("")

C10_OneEntryPerPackage ==
    (call = "get_preferred_distributions" /\ raised = NoException) =>
        /\ returned = package_requirements
        /\ Len(returned.v) = Len(valid_package_list.v)
        /\ \A i \in 1..Len(valid_package_list.v) :
               LET package == valid_package_list.v[i]
               IN  /\ returned.v[i].name = package.name
                   /\ returned.v[i].version = package.version
                   /\ Chosen(package, CurrentTags) # None
                   /\ returned.v[i].fingerprint = Chosen(package, CurrentTags).hash
                   /\ returned.v[i].index_url =
                          IF HasSourceUrl(package) THEN package.source.url ELSE None

\* Three entries: one with a source URL, one without a source, one whose
\* source has no URL.
C10_Witness ==
    /\ call = "get_preferred_distributions"
    /\ raised = NoException
    /\ Len(returned.v) = 3
    /\ \E i, j, k \in 1..3 :
           /\ returned.v[i].index_url = Str("https://mirror.example/simple")
           /\ valid_package_list.v[j].source = None
           /\ valid_package_list.v[k].source = PoetrySource(None)
           /\ returned.v[j].index_url = None
           /\ returned.v[k].index_url = None

(***************************************************************************)
(* C11.  A second run of validate_poetry_lock,                             *)
(* get_valid_packages_from_lock and get_preferred_distributions on the     *)
(* same object with the same environment ends as the first did: the same   *)
(* list of requirements (entries, order, length) or the same exception.    *)
(***************************************************************************)
C11_SecondRunSameOutcome ==
    pc.run = 3 => Outcome(raised, returned) = first

\* Both runs returned three requirements.
C11_Witness ==
    /\ pc.run = 3
    /\ call = "get_preferred_distributions"
    /\ raised = NoException
    /\ Len(returned.v) = 3
    /\ first = Outcome(NoException, returned)

(***************************************************************************)
(* C12.  No method changes the loaded lock (metadata, package list and     *)
(* order, each package's files), whether it returns or raises, and         *)
(* get_preferred_distributions leaves valid_package_list as it was.        *)
(***************************************************************************)
C12_LockNotChanged ==
    [][/\ data' = data
       /\ call' = "get_preferred_distributions" =>
              valid_package_list' = valid_package_list]_vars

\* A failed selection after a filter that dropped a package of a lock of three.
C12_Witness ==
    /\ call = "get_preferred_distributions"
    /\ raised.exc = "IncompatibleDistributionError"
    /\ Len(data.packages) = 3
    /\ Len(valid_package_list.v) = 2
    /\ data.metadata.python_versions # None

(***************************************************************************)
(* C13.  Once get_valid_packages_from_lock has returned on the object      *)
(* (valid_package_list is a list), get_preferred_distributions does not    *)
(* raise MissingLockMetadataError, and for an empty list returns an empty  *)
(* list.                                                                   *)
(***************************************************************************)
C13_NoPreconditionErrorAfterFilter ==
    (call = "get_preferred_distributions" /\ valid_package_list # None) =>
        /\ raised # MissingLockMetadataError
        /\ valid_package_list.v = <<>> => returned = List(<<>>)

(***************************************************************************)
(* C14.  Whenever poetry_lock_is_validated is true, the lock's schema      *)
(* version is supported and its constraint is absent, empty or admits the  *)
(* interpreter of the environment now set.                                 *)
(***************************************************************************)
C14_ValidatedMeansCompatible ==
    poetry_lock_is_validated => (SupportedSchema /\ EnvSupplied /\ LockAdmits)

(***************************************************************************)
(* C15.  A get_preferred_distributions call that raises leaves             *)
(* package_requirements as it was before the call.                         *)
(***************************************************************************)
C15_FailedSelectionLeavesRequirements ==
    [][(call' = "get_preferred_distributions" /\ raised' # NoException) =>
           package_requirements' = package_requirements]_vars

====
